---- MODULE Spec2Model ----
(***************************************************************************)
(* KeyDetailsView.ViewModel of Polkadot Vault (iOS): the key-set detail    *)
(* controller.  The model follows                                          *)
(* ios/PolkadotVault/Screens/KeyDetails/Views/KeyDetails+ViewModel.swift.  *)
(* The services (KeyDetailsService, GetAllNetworksService, SeedsMediating, *)
(* KeyDetailsActionService, WarningStateMediator) are external: their      *)
(* answers are inputs chosen with \E, their calls are counted.             *)
(***************************************************************************)
EXTENDS Integers, Sequences, FiniteSets, TLC

\* ------------------------------------------------------------- bounds
MaxKeys == 3          \* derived-key records in a KeySet init is given
MaxRefreshes == 1     \* refreshData() calls after the one of init
MaxTapRequests == 1   \* getNetworks calls of onNetworkSelectionTap in flight
MaxSelected == 2      \* rows held by selectedKeys

\* ------------------------------------------------------------- data
\* Swift optionals: nil is the empty sequence, a value x is <<x>>
None == <<>>

Some(x) == <<x>>

Unwrap(o) == o[1]

Networks == {"A", "B"}

\* A derivation path is the sequence of its characters after the leading
\* "//"; <<1, 0>> stands for "//10".

Descriptions == {"timeout", "db"}

KeyName == "keyset"

RECURSIVE PathLess(_, _)
\* Swift String `<` : lexicographic, a proper prefix is smaller.
PathLess(a, b) ==
    IF b = <<>> THEN FALSE
    ELSE IF a = <<>> THEN TRUE
    ELSE IF Head(a) < Head(b) THEN TRUE
    ELSE IF Head(a) > Head(b) THEN FALSE
    ELSE PathLess(Tail(a), Tail(b))

\* MKeyAndNetworkCard: key.address.path, network.networkSpecsKey, publicKeyDetails
Record(p, n) == [path |-> p, network |-> n, publicKeyDetails |-> <<n, p>>]

\* the derived keys: "//1" on A, "//10" on B, "//2" on both networks
Records ==
    {Record(<<1>>, "A"), Record(<<1, 0>>, "B"), Record(<<2>>, "A"), Record(<<2>>, "B")}

RECURSIVE SeqsUpTo(_, _)
SeqsUpTo(S, n) ==
    IF n = 0 THEN {<<>>}
    ELSE LET shorter == SeqsUpTo(S, n - 1)
         IN  shorter \cup {Append(s, x) : s \in {t \in shorter : Len(t) = n - 1}, x \in S}

\* MKeysNew.root: absent, or an address with a seed name and a base58 key
Roots == {None, Some([seedName |-> "seed1", base58 |-> "5Grw"])}

\* the KeySets getKeys answers with: no derived key, one on network A, and
\* "//2" on A before "//1" on B; each with and without a root key
KeySetAnswers ==
    {[root |-> r, set |-> s] :
        r \in Roots,
        s \in {<<>>, <<Record(<<1>>, "A")>>, <<Record(<<2>>, "A"), Record(<<1>>, "B")>>}}

\* the KeySets init is given: every sequence of up to MaxKeys records
KeySetArguments ==
    {[root |-> Some([seedName |-> "seed1", base58 |-> "5Grw"]), set |-> s] :
        s \in SeqsUpTo(Records, MaxKeys)}

Range(s) == {s[i] : i \in DOMAIN s}

\* MmNetwork values of appState.userData (selectedNetworks, allNetworks)
NetworkOf(n) == [key |-> n]

NetworkSets == SUBSET {NetworkOf(n) : n \in Networks}

\* what getNetworks answers: no network, or all of them
NetworkAnswers == {{}, {NetworkOf(n) : n \in Networks}}

\* ------------------------------------------------------------- projection
RECURSIVE InsertByPath(_, _)
\* one step of sorted(by: path <): rec goes before the first record with a
\* greater path, after every record with a smaller or equal one
InsertByPath(rec, s) ==
    IF s = <<>> THEN <<rec>>
    ELSE IF PathLess(rec.path, Head(s).path) THEN <<rec>> \o s
    ELSE <<Head(s)>> \o InsertByPath(rec, Tail(s))

\* no sort: the records in the order of the KeySet
unsortedDerivedKeys(set) == set

RECURSIVE sortedDerivedKeys(_)
\* keysData.set.sorted(by: { $0.key.address.path < $1.key.address.path })
sortedDerivedKeys(set) ==
    IF set = <<>> THEN <<>>
    ELSE InsertByPath(set[Len(set)], sortedDerivedKeys(SubSeq(set, 1, Len(set) - 1)))

\* a filter that retains the records of the networks that are not selected
filteredKeysInverted(sorted, selected) ==
    IF selected = {} THEN sorted
    ELSE LET keys == {n.key : n \in selected}
             Retained(rec) == rec.network \notin keys
         IN  SelectSeq(sorted, Retained)

\* the filter of refreshDerivedKeys
filteredKeys(sorted, selected) ==
    IF selected = {} THEN sorted
    ELSE LET keys == {n.key : n \in selected}
             Retained(rec) == rec.network \in keys
         IN  SelectSeq(sorted, Retained)

\* DerivedKeyRowViewModel(card): the display data of a record
DerivedKeyRowViewModel(rec) == [path |-> rec.path, network |-> rec.network]

DerivedKeyRowModel(rec) ==
    [keyData |-> rec,
     viewModel |-> DerivedKeyRowViewModel(rec),
     publicKeyDetails |-> rec.publicKeyDetails]

\* the rows refreshDerivedKeys assigns to derivedKeys
projectedRows(kd, selected) ==
    LET kept == filteredKeys(sortedDerivedKeys(kd.set), selected)
    IN  [i \in 1..Len(kept) |-> DerivedKeyRowModel(kept[i])]

viewStateFor(rows) == IF rows = <<>> THEN "emptyState" ELSE "list"

\* KeySummaryViewModel(keyName:base58:) of refreshKeySummary
KeySummaryViewModel(kd) ==
    [keyName |-> IF kd.root = None THEN "" ELSE Unwrap(kd.root).seedName,
     base58 |-> IF kd.root = None THEN "" ELSE Unwrap(kd.root).base58]

seedNameOf(kd) == IF kd.root = None THEN "" ELSE Unwrap(kd.root).seedName

\* ErrorBottomModalViewModel
noNetworksAvailable == [kind |-> "noNetworksAvailable", message |-> ""]

alertError(d) == [kind |-> "alertError", message |-> d]

\* ------------------------------------------------------------- state
VARIABLES
    keysData,                 \* MKeysNew? : [root, set] when set
    keySummary,               \* KeySummaryViewModel? : [keyName, base58] when set
    removeSeed,               \* name of the seed `Remove Seed` removes
    derivedKeys,              \* [DerivedKeyRowModel]
    viewState,                \* "emptyState" or "list"
    selectedKeys,             \* [DerivedKeyRowModel]
    selectedNetworks,         \* appState.userData.selectedNetworks
    allNetworks,              \* appState.userData.allNetworks
    isFilteringActive,
    isPresentingNetworkSelection,
    isPresentingError,
    presentableError,
    snackbarViewModel,
    isSnackbarPresented,
    shouldPresentRemoveConfirmationModal,
    shouldPresentBackupModal,
    shouldPresentSelectionOverlay,
    isShowingRemoveConfirmation,
    isShowingBackupModal,
    isPresentingConnectivityAlert,
    isPresentingSelectionOverlay,
    isPresentingKeyDetails,
    presentedKeyDetails,
    presentedPublicKeyDetails,
    isPresentingDeriveNewKey,
    backupModal,
    alert,                    \* warningStateMediator.alert
    keysRequests,             \* getKeys calls in issue order: "inflight", "ok" or "failed"
    keysDataRequest,          \* the getKeys call whose answer keysData holds, 0 for init's argument
    networkRequests,          \* getNetworks calls in flight, by caller
    calls,                    \* collaborator calls and signals of the latest handler, in order,
                              \* and what a function called by the view returned
    handler                   \* the latest handler, completion or outside write that ran:
                              \* its name, the row it was given, selectedKeys when it began

dataVars == <<keysData, keySummary, removeSeed, derivedKeys, viewState>>

filterVars == <<selectedNetworks, allNetworks, isFilteringActive, isPresentingNetworkSelection>>

errorVars == <<isPresentingError, presentableError>>

snackbarVars == <<snackbarViewModel, isSnackbarPresented>>

requestVars == <<keysRequests, keysDataRequest, networkRequests>>

selectionVars == <<selectedKeys, isPresentingSelectionOverlay, shouldPresentSelectionOverlay>>

navigationVars ==
    <<isPresentingKeyDetails, presentedKeyDetails, presentedPublicKeyDetails,
      isPresentingDeriveNewKey>>

modalVars ==
    <<shouldPresentRemoveConfirmationModal, shouldPresentBackupModal,
      isShowingRemoveConfirmation, isShowingBackupModal,
      isPresentingConnectivityAlert, backupModal, alert>>

vars ==
    <<dataVars, filterVars, errorVars, snackbarVars, requestVars, selectionVars,
      navigationVars, modalVars, calls, handler>>

\* ------------------------------------------------------------- private helpers
\* the handler `name` runs, with the row `deriveKey` if it takes one
Ran(name, deriveKey) ==
    handler' = [name |-> name, deriveKey |-> deriveKey, selectedKeys |-> selectedKeys]

\* a refreshDerivedKeys() that leaves viewState as it was
refreshDerivedKeysOnly(kd) ==
    IF kd = None
    THEN UNCHANGED <<derivedKeys, viewState>>
    ELSE /\ derivedKeys' = projectedRows(Unwrap(kd), selectedNetworks)
         /\ UNCHANGED viewState

\* a refreshDerivedKeys() that adds the projected rows to the ones displayed
refreshDerivedKeysAppending(kd) ==
    IF kd = None
    THEN UNCHANGED <<derivedKeys, viewState>>
    ELSE /\ derivedKeys' = derivedKeys \o projectedRows(Unwrap(kd), selectedNetworks)
         /\ viewState' = viewStateFor(derivedKeys')

\* refreshDerivedKeys() with kd the value of keysData when it runs
refreshDerivedKeys(kd) ==
    IF kd = None
    THEN UNCHANGED <<derivedKeys, viewState>>
    ELSE /\ derivedKeys' = projectedRows(Unwrap(kd), selectedNetworks)
         /\ viewState' = viewStateFor(derivedKeys')

\* refreshKeySummary()
refreshKeySummary(kd) ==
    IF kd = None
    THEN UNCHANGED <<keySummary, removeSeed>>
    ELSE /\ keySummary' = Some(KeySummaryViewModel(Unwrap(kd)))
         /\ removeSeed' = seedNameOf(Unwrap(kd))

\* refreshNetworks(): the call; its completion is RefreshNetworksSuccess/Failure
refreshNetworks ==
    networkRequests' = [networkRequests EXCEPT !.refresh = @ + 1]

\* updateRenderables()
updateRenderables(kd) ==
    /\ refreshDerivedKeys(kd)
    /\ refreshKeySummary(kd)
    /\ refreshNetworks

\* refreshData(): the call; its completion is RefreshDataSuccess/Failure
refreshData ==
    keysRequests' = Append(keysRequests, "inflight")

\* ------------------------------------------------------------- construction
\* init(keyName:keysData:...onCompletion:) with the given KeySets as arguments
InitWith(keySets) ==
    /\ keysData \in {None} \cup {Some(ks) : ks \in keySets}
    /\ selectedNetworks \in NetworkSets
    /\ allNetworks \in NetworkAnswers
    /\ isPresentingNetworkSelection = FALSE
       \* use(appState:) : the sink runs with the current value, false
    /\ isFilteringActive = (selectedNetworks # {})
       \* updateRenderables(), then the sink of subscribeToNetworkChanges()
    /\ derivedKeys = IF keysData = None THEN <<>> ELSE projectedRows(Unwrap(keysData), selectedNetworks)
    /\ viewState = IF keysData = None THEN "list" ELSE viewStateFor(derivedKeys)
    /\ keySummary = IF keysData = None THEN None ELSE Some(KeySummaryViewModel(Unwrap(keysData)))
    /\ removeSeed = IF keysData = None THEN "" ELSE seedNameOf(Unwrap(keysData))
    /\ networkRequests = [refresh |-> 1, tap |-> 0]
       \* refreshData()
    /\ keysRequests = <<"inflight">>
    /\ keysDataRequest = 0
    /\ selectedKeys = <<>>
    /\ isPresentingError = FALSE
    /\ presentableError = noNetworksAvailable
    /\ snackbarViewModel = [title |-> "", style |-> "info"]
    /\ isSnackbarPresented = FALSE
    /\ shouldPresentRemoveConfirmationModal = FALSE
    /\ shouldPresentBackupModal = FALSE
    /\ shouldPresentSelectionOverlay = FALSE
    /\ isShowingRemoveConfirmation = FALSE
    /\ isShowingBackupModal = FALSE
    /\ isPresentingConnectivityAlert = FALSE
    /\ isPresentingSelectionOverlay = FALSE
    /\ isPresentingKeyDetails = FALSE
    /\ presentedKeyDetails = None
    /\ presentedPublicKeyDetails = None
    /\ isPresentingDeriveNewKey = FALSE
    /\ backupModal = None
    /\ alert = FALSE
    /\ calls = <<>>
    /\ handler = [name |-> "init", deriveKey |-> None, selectedKeys |-> <<>>]

\* ------------------------------------------------------------- refresh
\* a success branch with a request-sequence guard: the answer of a call older
\* than one already answered is dropped
RefreshDataSuccessNewestOnly(id, ks) ==
    /\ Ran("refreshData.success", None)
    /\ id \in DOMAIN keysRequests
    /\ keysRequests[id] = "inflight"
    /\ keysRequests' = [keysRequests EXCEPT ![id] = "ok"]
    /\ IF id > keysDataRequest
       THEN /\ keysDataRequest' = id
            /\ keysData' = Some(ks)
            /\ updateRenderables(keysData')
       ELSE UNCHANGED <<dataVars, keysDataRequest, networkRequests>>
    /\ calls' = <<>>
    /\ UNCHANGED <<filterVars, errorVars, snackbarVars, selectionVars, navigationVars, modalVars>>

\* refreshData(): getKeys completes call id with .success(ks)
RefreshDataSuccess(id, ks) ==
    /\ Ran("refreshData.success", None)
    /\ id \in DOMAIN keysRequests
    /\ keysRequests[id] = "inflight"
    /\ keysRequests' = [keysRequests EXCEPT ![id] = "ok"]
    /\ keysDataRequest' = id
    /\ keysData' = Some(ks)
    /\ updateRenderables(keysData')
    /\ calls' = <<>>
    /\ UNCHANGED <<filterVars, errorVars, snackbarVars, selectionVars, navigationVars, modalVars>>

\* a failure branch that also drops the stored KeySet and its rows
RefreshDataFailureClearing(id, d) ==
    /\ Ran("refreshData.failure", None)
    /\ id \in DOMAIN keysRequests
    /\ keysRequests[id] = "inflight"
    /\ keysRequests' = [keysRequests EXCEPT ![id] = "failed"]
    /\ presentableError' = alertError(d)
    /\ isPresentingError' = TRUE
    /\ keysData' = None
    /\ derivedKeys' = <<>>
    /\ viewState' = "emptyState"
    /\ calls' = <<>>
    /\ UNCHANGED <<keySummary, removeSeed, filterVars, snackbarVars, keysDataRequest,
                   networkRequests, selectionVars, navigationVars, modalVars>>

\* a failure branch that asks for the KeySet again
RefreshDataFailureRetrying(id, d) ==
    /\ Ran("refreshData.failure", None)
    /\ id \in DOMAIN keysRequests
    /\ keysRequests[id] = "inflight"
    /\ keysRequests' = Append([keysRequests EXCEPT ![id] = "failed"], "inflight")
    /\ presentableError' = alertError(d)
    /\ isPresentingError' = TRUE
    /\ calls' = <<>>
    /\ UNCHANGED <<dataVars, filterVars, snackbarVars, keysDataRequest, networkRequests,
                   selectionVars, navigationVars, modalVars>>

\* refreshData(): getKeys completes call id with .failure(error), error.description = d
RefreshDataFailure(id, d) ==
    /\ Ran("refreshData.failure", None)
    /\ id \in DOMAIN keysRequests
    /\ keysRequests[id] = "inflight"
    /\ keysRequests' = [keysRequests EXCEPT ![id] = "failed"]
    /\ presentableError' = alertError(d)
    /\ isPresentingError' = TRUE
    /\ calls' = <<>>
    /\ UNCHANGED <<dataVars, filterVars, snackbarVars, keysDataRequest, networkRequests,
                   selectionVars, navigationVars, modalVars>>

\* refreshNetworks(): getNetworks completes with .success(networks)
RefreshNetworksSuccess(networks) ==
    /\ Ran("refreshNetworks.success", None)
    /\ networkRequests.refresh > 0
    /\ networkRequests' = [networkRequests EXCEPT !.refresh = @ - 1]
    /\ allNetworks' = networks
    /\ calls' = <<>>
    /\ UNCHANGED <<dataVars, selectedNetworks, isFilteringActive, isPresentingNetworkSelection,
                   errorVars, snackbarVars, keysRequests, keysDataRequest,
                   selectionVars, navigationVars, modalVars>>

\* refreshNetworks(): getNetworks completes with .failure(error)
RefreshNetworksFailure(d) ==
    /\ Ran("refreshNetworks.failure", None)
    /\ networkRequests.refresh > 0
    /\ networkRequests' = [networkRequests EXCEPT !.refresh = @ - 1]
    /\ presentableError' = alertError(d)
    /\ isPresentingError' = TRUE
    /\ calls' = <<>>
    /\ UNCHANGED <<dataVars, filterVars, snackbarVars, keysRequests, keysDataRequest,
                   selectionVars, navigationVars, modalVars>>

\* a deletion completion that presents the snackbar and asks for no KeySet
OnPublicKeyCompletionSnackbarOnly ==
    /\ Ran("onPublicKeyCompletion", None)
    /\ Len(keysRequests) <= MaxRefreshes
    /\ snackbarViewModel' = [title |-> "PublicKeyDetailsModal.Confirmation.snackbar", style |-> "warning"]
    /\ isSnackbarPresented' = TRUE
    /\ calls' = <<>>
    /\ UNCHANGED <<dataVars, filterVars, errorVars, requestVars,
                   selectionVars, navigationVars, modalVars>>

\* onPublicKeyCompletion(.derivedKeyDeleted)
OnPublicKeyCompletion ==
    /\ Ran("onPublicKeyCompletion", None)
    /\ Len(keysRequests) <= MaxRefreshes
    /\ refreshData
    /\ snackbarViewModel' = [title |-> "PublicKeyDetailsModal.Confirmation.snackbar", style |-> "warning"]
    /\ isSnackbarPresented' = TRUE
    /\ calls' = <<>>
    /\ UNCHANGED <<dataVars, filterVars, errorVars, keysDataRequest, networkRequests,
                   selectionVars, navigationVars, modalVars>>

\* onAddDerivedKeyCompletion(.derivedKeyCreated)
OnAddDerivedKeyCompletion ==
    /\ Ran("onAddDerivedKeyCompletion", None)
    /\ Len(keysRequests) <= MaxRefreshes
    /\ refreshData
    /\ snackbarViewModel' = [title |-> "CreateDerivedKey.Snackbar.created", style |-> "info"]
    /\ isSnackbarPresented' = TRUE
    /\ calls' = <<>>
    /\ UNCHANGED <<dataVars, filterVars, errorVars, keysDataRequest, networkRequests,
                   selectionVars, navigationVars, modalVars>>

\* the error modal is closed (the view resets the published flag)
ErrorDismissed ==
    /\ Ran("isPresentingError = false", None)
    /\ isPresentingError
    /\ isPresentingError' = FALSE
    /\ calls' = <<>>
    /\ UNCHANGED <<dataVars, filterVars, presentableError, snackbarVars, requestVars,
                   selectionVars, navigationVars, modalVars>>

\* ------------------------------------------------------------- network filter
\* onNetworkSelectionTap(): the call
OnNetworkSelectionTap ==
    /\ Ran("onNetworkSelectionTap", None)
    /\ networkRequests.tap < MaxTapRequests
    /\ networkRequests' = [networkRequests EXCEPT !.tap = @ + 1]
    /\ calls' = <<>>
    /\ UNCHANGED <<dataVars, filterVars, errorVars, snackbarVars, keysRequests, keysDataRequest,
                   selectionVars, navigationVars, modalVars>>

\* onNetworkSelectionTap(): getNetworks completes with .success(networks); the
\* sinks on $isPresentingNetworkSelection return at their guard for true
OnNetworkSelectionTapSuccess(networks) ==
    /\ Ran("onNetworkSelectionTap.success", None)
    /\ networkRequests.tap > 0
    /\ networkRequests' = [networkRequests EXCEPT !.tap = @ - 1]
    /\ allNetworks' = networks
    /\ isPresentingNetworkSelection' = TRUE
    /\ calls' = <<>>
    /\ UNCHANGED <<dataVars, selectedNetworks, isFilteringActive, errorVars, snackbarVars,
                   keysRequests, keysDataRequest, selectionVars, navigationVars, modalVars>>

\* onNetworkSelectionTap(): getNetworks completes with .failure(error); the
\* `if case let .success` has no other branch
OnNetworkSelectionTapFailure(d) ==
    /\ Ran("onNetworkSelectionTap.failure", None)
    /\ networkRequests.tap > 0
    /\ networkRequests' = [networkRequests EXCEPT !.tap = @ - 1]
    /\ calls' = <<>>
    /\ UNCHANGED <<dataVars, filterVars, errorVars, snackbarVars, keysRequests, keysDataRequest,
                   selectionVars, navigationVars, modalVars>>

\* appState.userData.selectedNetworks is shared application state: whoever owns
\* it (the network-selection overlay) replaces it
NetworksSelected(networks) ==
    /\ Ran("selectedNetworks =", None)
    /\ networks # selectedNetworks
    /\ selectedNetworks' = networks
    /\ calls' = <<>>
    /\ UNCHANGED <<dataVars, allNetworks, isFilteringActive, isPresentingNetworkSelection,
                   errorVars, snackbarVars, requestVars, selectionVars, navigationVars, modalVars>>

\* the overlay closes with the sink of subscribeToNetworkChanges() missing
NetworkSelectionDismissedUnsubscribed ==
    /\ Ran("isPresentingNetworkSelection = false", None)
    /\ isPresentingNetworkSelection
    /\ isPresentingNetworkSelection' = FALSE
    /\ isFilteringActive' = (selectedNetworks # {})
    /\ calls' = <<>>
    /\ UNCHANGED <<dataVars, selectedNetworks, allNetworks,
                   errorVars, snackbarVars, requestVars, selectionVars, navigationVars, modalVars>>

\* isPresentingNetworkSelection is set to false: the sink of use(appState:),
\* then the sink of subscribeToNetworkChanges()
NetworkSelectionDismissed ==
    /\ Ran("isPresentingNetworkSelection = false", None)
    /\ isPresentingNetworkSelection
    /\ isPresentingNetworkSelection' = FALSE
    /\ isFilteringActive' = (selectedNetworks # {})
    /\ refreshDerivedKeys(keysData)
    /\ calls' = <<>>
    /\ UNCHANGED <<keysData, keySummary, removeSeed, selectedNetworks, allNetworks,
                   errorVars, snackbarVars, requestVars, selectionVars, navigationVars, modalVars>>

\* ------------------------------------------------------------- taps
\* a tap that appends the row whether or not it is selected
toggleSelectionAppending(selected, deriveKey) == Append(selected, deriveKey)

\* a toggle that looks for the row at the end of the selection only
toggleSelectionByLast(selected, deriveKey) ==
    IF selected # <<>> /\ selected[Len(selected)] = deriveKey
    THEN SubSeq(selected, 1, Len(selected) - 1)
    ELSE Append(selected, deriveKey)

\* the two branches of `if selectedKeys.contains(deriveKey)`
toggleSelection(selected, deriveKey) ==
    IF deriveKey \in Range(selected)
    THEN LET Other(row) == row # deriveKey IN SelectSeq(selected, Other)
    ELSE Append(selected, deriveKey)

\* MKeyDetails the action service resolves for a row
MKeyDetails(deriveKey) == [keyName |-> KeyName, publicKey |-> deriveKey.publicKeyDetails]

navigateToPublicKey(deriveKey) ==
    [call |-> "navigateToPublicKey", keyName |-> KeyName, publicKey |-> deriveKey.publicKeyDetails]

\* a tap that toggles the selection outside selection mode as well
OnDerivedKeyTapUndispatched(deriveKey, keyDetails) ==
    IF isPresentingSelectionOverlay
    THEN /\ Ran("onDerivedKeyTap", Some(deriveKey))
         /\ keyDetails = None
         /\ deriveKey \in Range(selectedKeys) \/ Len(selectedKeys) < MaxSelected
         /\ selectedKeys' = toggleSelection(selectedKeys, deriveKey)
         /\ calls' = <<>>
         /\ UNCHANGED <<dataVars, filterVars, errorVars, snackbarVars, requestVars,
                        isPresentingSelectionOverlay, shouldPresentSelectionOverlay,
                        navigationVars, modalVars>>
    ELSE /\ Ran("onDerivedKeyTap", Some(deriveKey))
         /\ calls' = <<navigateToPublicKey(deriveKey)>>
         /\ selectedKeys' = toggleSelection(selectedKeys, deriveKey)
         /\ IF keyDetails = None
            THEN UNCHANGED navigationVars
            ELSE /\ presentedPublicKeyDetails' = Some(deriveKey.publicKeyDetails)
                 /\ presentedKeyDetails' = keyDetails
                 /\ isPresentingKeyDetails' = TRUE
                 /\ UNCHANGED isPresentingDeriveNewKey
         /\ UNCHANGED <<dataVars, filterVars, errorVars, snackbarVars, requestVars,
                        isPresentingSelectionOverlay, shouldPresentSelectionOverlay, modalVars>>

\* a tap without the `guard let keyDetails ... else { return }`: the key
\* details are presented whatever navigateToPublicKey answers
OnDerivedKeyTapUnguarded(deriveKey, keyDetails) ==
    IF isPresentingSelectionOverlay
    THEN /\ Ran("onDerivedKeyTap", Some(deriveKey))
         /\ keyDetails = None
         /\ deriveKey \in Range(selectedKeys) \/ Len(selectedKeys) < MaxSelected
         /\ selectedKeys' = toggleSelection(selectedKeys, deriveKey)
         /\ calls' = <<>>
         /\ UNCHANGED <<dataVars, filterVars, errorVars, snackbarVars, requestVars,
                        isPresentingSelectionOverlay, shouldPresentSelectionOverlay,
                        navigationVars, modalVars>>
    ELSE /\ Ran("onDerivedKeyTap", Some(deriveKey))
         /\ calls' = <<navigateToPublicKey(deriveKey)>>
         /\ presentedPublicKeyDetails' = Some(deriveKey.publicKeyDetails)
         /\ presentedKeyDetails' = keyDetails
         /\ isPresentingKeyDetails' = TRUE
         /\ UNCHANGED isPresentingDeriveNewKey
         /\ UNCHANGED <<dataVars, filterVars, errorVars, snackbarVars, requestVars,
                        selectionVars, modalVars>>

\* onDerivedKeyTap(deriveKey); keyDetails is what navigateToPublicKey answers
\* when it is asked
OnDerivedKeyTap(deriveKey, keyDetails) ==
    IF isPresentingSelectionOverlay
    THEN /\ Ran("onDerivedKeyTap", Some(deriveKey))
         /\ keyDetails = None
         /\ deriveKey \in Range(selectedKeys) \/ Len(selectedKeys) < MaxSelected
         /\ selectedKeys' = toggleSelection(selectedKeys, deriveKey)
         /\ calls' = <<>>
         /\ UNCHANGED <<dataVars, filterVars, errorVars, snackbarVars, requestVars,
                        isPresentingSelectionOverlay, shouldPresentSelectionOverlay,
                        navigationVars, modalVars>>
    ELSE /\ Ran("onDerivedKeyTap", Some(deriveKey))
         /\ calls' = <<navigateToPublicKey(deriveKey)>>
         /\ IF keyDetails = None
            THEN UNCHANGED navigationVars
            ELSE /\ presentedPublicKeyDetails' = Some(deriveKey.publicKeyDetails)
                 /\ presentedKeyDetails' = keyDetails
                 /\ isPresentingKeyDetails' = TRUE
                 /\ UNCHANGED isPresentingDeriveNewKey
         /\ UNCHANGED <<dataVars, filterVars, errorVars, snackbarVars, requestVars,
                        selectionVars, modalVars>>

\* onCreateDerivedKeyTap()
OnCreateDerivedKeyTap ==
    /\ Ran("onCreateDerivedKeyTap", None)
    /\ IF allNetworks = {}
       THEN /\ presentableError' = noNetworksAvailable
            /\ isPresentingError' = TRUE
            /\ UNCHANGED navigationVars
       ELSE /\ isPresentingDeriveNewKey' = TRUE
            /\ UNCHANGED <<isPresentingKeyDetails, presentedKeyDetails,
                           presentedPublicKeyDetails, errorVars>>
    /\ calls' = <<>>
    /\ UNCHANGED <<dataVars, filterVars, snackbarVars, requestVars, selectionVars, modalVars>>

\* createDerivedKeyViewModel(): `keysData!` traps when keysData is nil
createDerivedKeyViewModel ==
    IF keysData = None
    THEN [kind |-> "fatalError"]
    ELSE [kind |-> "CreateKeyNetworkSelectionView.ViewModel",
          seedName |-> seedNameOf(Unwrap(keysData)),
          keyName |-> KeyName,
          keySet |-> Unwrap(keysData)]

\* the view presents the derive-new-key flow and asks for its view model;
\* calls holds what it is given
CreateDerivedKeyViewModelRequested ==
    /\ Ran("createDerivedKeyViewModel", None)
    /\ isPresentingDeriveNewKey
    /\ calls' = <<[call |-> "createDerivedKeyViewModel", result |-> createDerivedKeyViewModel]>>
    /\ UNCHANGED <<dataVars, filterVars, errorVars, snackbarVars, requestVars, selectionVars,
                   navigationVars, modalVars>>

\* the derive-new-key flow is closed (the view resets the published flag)
DeriveNewKeyDismissed ==
    /\ Ran("isPresentingDeriveNewKey = false", None)
    /\ isPresentingDeriveNewKey
    /\ isPresentingDeriveNewKey' = FALSE
    /\ calls' = <<>>
    /\ UNCHANGED <<dataVars, filterVars, errorVars, snackbarVars, requestVars, selectionVars,
                   isPresentingKeyDetails, presentedKeyDetails, presentedPublicKeyDetails,
                   modalVars>>

\* onConnectivityAlertTap()
OnConnectivityAlertTap ==
    /\ Ran("onConnectivityAlertTap", None)
    /\ alert' = FALSE
    /\ shouldPresentBackupModal' = ~shouldPresentBackupModal
    /\ calls' = <<[call |-> "resetConnectivityWarnings"]>>
    /\ UNCHANGED <<dataVars, filterVars, errorVars, snackbarVars, requestVars, selectionVars,
                   navigationVars, shouldPresentRemoveConfirmationModal,
                   isShowingRemoveConfirmation, isShowingBackupModal,
                   isPresentingConnectivityAlert, backupModal>>

\* ------------------------------------------------------------- modals
\* exportPrivateKeyService.backupViewModel(keysData)
backupViewModel(kd) ==
    IF kd = None THEN None
    ELSE Some([header |-> KeySummaryViewModel(Unwrap(kd)),
               derivedKeys |-> sortedDerivedKeys(Unwrap(kd).set)])

\* a dismissal that backs the seed up whatever the connectivity alert says
OnActionSheetDismissalUngated ==
    /\ Ran("onActionSheetDismissal", None)
    /\ IF shouldPresentRemoveConfirmationModal
       THEN /\ shouldPresentRemoveConfirmationModal' = FALSE
            /\ isShowingRemoveConfirmation' = ~isShowingRemoveConfirmation
       ELSE UNCHANGED <<shouldPresentRemoveConfirmationModal, isShowingRemoveConfirmation>>
    /\ IF shouldPresentBackupModal
       THEN /\ shouldPresentBackupModal' = FALSE
            /\ calls' = <<[call |-> "performBackupSeed", keyName |-> KeyName]>>
            /\ backupModal' = backupViewModel(keysData)
            /\ isShowingBackupModal' = TRUE
            /\ UNCHANGED isPresentingConnectivityAlert
       ELSE /\ calls' = <<>>
            /\ UNCHANGED <<shouldPresentBackupModal, isPresentingConnectivityAlert,
                           backupModal, isShowingBackupModal>>
    /\ IF shouldPresentSelectionOverlay
       THEN /\ shouldPresentSelectionOverlay' = FALSE
            /\ isPresentingSelectionOverlay' = ~isPresentingSelectionOverlay
       ELSE UNCHANGED <<shouldPresentSelectionOverlay, isPresentingSelectionOverlay>>
    /\ UNCHANGED <<dataVars, filterVars, errorVars, snackbarVars, requestVars,
                   selectedKeys, navigationVars, alert>>

\* onActionSheetDismissal()
OnActionSheetDismissal ==
    LET isAlertVisible == alert
    IN  /\ Ran("onActionSheetDismissal", None)
        /\ IF shouldPresentRemoveConfirmationModal
           THEN /\ shouldPresentRemoveConfirmationModal' = FALSE
                /\ isShowingRemoveConfirmation' = ~isShowingRemoveConfirmation
           ELSE UNCHANGED <<shouldPresentRemoveConfirmationModal, isShowingRemoveConfirmation>>
        /\ IF shouldPresentBackupModal
           THEN /\ shouldPresentBackupModal' = FALSE
                /\ IF isAlertVisible
                   THEN /\ isPresentingConnectivityAlert' = ~isPresentingConnectivityAlert
                        /\ calls' = <<>>
                        /\ UNCHANGED <<backupModal, isShowingBackupModal>>
                   ELSE /\ calls' = <<[call |-> "performBackupSeed", keyName |-> KeyName]>>
                        /\ backupModal' = backupViewModel(keysData)
                        /\ isShowingBackupModal' = TRUE
                        /\ UNCHANGED isPresentingConnectivityAlert
           ELSE /\ calls' = <<>>
                /\ UNCHANGED <<shouldPresentBackupModal, isPresentingConnectivityAlert,
                               backupModal, isShowingBackupModal>>
        /\ IF shouldPresentSelectionOverlay
           THEN /\ shouldPresentSelectionOverlay' = FALSE
                /\ isPresentingSelectionOverlay' = ~isPresentingSelectionOverlay
           ELSE UNCHANGED <<shouldPresentSelectionOverlay, isPresentingSelectionOverlay>>
        /\ UNCHANGED <<dataVars, filterVars, errorVars, snackbarVars, requestVars,
                       selectedKeys, navigationVars, alert>>

\* DerivedKeyExportModel(viewModel:keyData:)
DerivedKeyExportModel(row) == [viewModel |-> row.viewModel, keyData |-> row.keyData]

\* an export of the rows displayed, not of the rows selected
keyExportModelOfDisplayed ==
    IF keySummary = None THEN None
    ELSE Some([selectedItems |->
                  [key |-> Unwrap(keySummary),
                   derivedKeys |-> [i \in 1..Len(derivedKeys) |-> DerivedKeyExportModel(derivedKeys[i])]],
               count |-> Len(selectedKeys)])

\* keyExportModel() -> ExportMultipleKeysModalViewModel?
keyExportModel ==
    IF keySummary = None THEN None
    ELSE Some([selectedItems |->
                  [key |-> Unwrap(keySummary),
                   derivedKeys |-> [i \in 1..Len(selectedKeys) |-> DerivedKeyExportModel(selectedKeys[i])]],
               count |-> Len(selectedKeys)])

\* the view asks for keyExportModel(); calls holds what it is given
KeyExportModelRequested ==
    /\ Ran("keyExportModel", None)
    /\ calls' = <<[call |-> "keyExportModel", result |-> keyExportModel]>>
    /\ UNCHANGED <<dataVars, filterVars, errorVars, snackbarVars, requestVars, selectionVars,
                   navigationVars, modalVars>>

\* clearBackupModalState()
ClearBackupModalState ==
    /\ Ran("clearBackupModalState", None)
    /\ backupModal' = None
    /\ calls' = <<>>
    /\ UNCHANGED <<dataVars, filterVars, errorVars, snackbarVars, requestVars, selectionVars,
                   navigationVars, shouldPresentRemoveConfirmationModal,
                   shouldPresentBackupModal, isShowingRemoveConfirmation,
                   isShowingBackupModal, isPresentingConnectivityAlert, alert>>

\* the backup modal is closed (the view resets the published flag)
BackupModalDismissed ==
    /\ Ran("isShowingBackupModal = false", None)
    /\ isShowingBackupModal
    /\ isShowingBackupModal' = FALSE
    /\ calls' = <<>>
    /\ UNCHANGED <<dataVars, filterVars, errorVars, snackbarVars, requestVars, selectionVars,
                   navigationVars, shouldPresentRemoveConfirmationModal,
                   shouldPresentBackupModal, isShowingRemoveConfirmation,
                   isPresentingConnectivityAlert, backupModal, alert>>

\* the action sheet sets one of the published shouldPresent... flags
ActionSheetChoice(choice) ==
    /\ Ran("shouldPresent = true", None)
    /\ \/ /\ choice = "remove"
          /\ ~shouldPresentRemoveConfirmationModal
          /\ shouldPresentRemoveConfirmationModal' = TRUE
          /\ UNCHANGED <<shouldPresentBackupModal, shouldPresentSelectionOverlay>>
       \/ /\ choice = "backup"
          /\ ~shouldPresentBackupModal
          /\ shouldPresentBackupModal' = TRUE
          /\ UNCHANGED <<shouldPresentRemoveConfirmationModal, shouldPresentSelectionOverlay>>
       \/ /\ choice = "select"
          /\ ~shouldPresentSelectionOverlay
          /\ shouldPresentSelectionOverlay' = TRUE
          /\ UNCHANGED <<shouldPresentRemoveConfirmationModal, shouldPresentBackupModal>>
    /\ calls' = <<>>
    /\ UNCHANGED <<dataVars, filterVars, errorVars, snackbarVars, requestVars,
                   selectedKeys, isPresentingSelectionOverlay, navigationVars,
                   isShowingRemoveConfirmation, isShowingBackupModal,
                   isPresentingConnectivityAlert, backupModal, alert>>

\* the warning state mediator raises the connectivity alert
ConnectivityWarning ==
    /\ Ran("alert = true", None)
    /\ ~alert
    /\ alert' = TRUE
    /\ calls' = <<>>
    /\ UNCHANGED <<dataVars, filterVars, errorVars, snackbarVars, requestVars, selectionVars,
                   navigationVars, shouldPresentRemoveConfirmationModal, shouldPresentBackupModal,
                   isShowingRemoveConfirmation, isShowingBackupModal,
                   isPresentingConnectivityAlert, backupModal>>

\* ------------------------------------------------------------- removal
\* a confirmation without the `guard isRemoved`
OnRemoveKeySetConfirmationTapUnguarded(isRemoved) ==
    /\ Ran("onRemoveKeySetConfirmationTap", None)
    /\ calls' =
          <<[call |-> "removeSeed", seedName |-> removeSeed, result |-> isRemoved],
            [call |-> "forgetKeySetAction", keyName |-> KeyName],
            [call |-> "dismissRequest.send"],
            [call |-> "onCompletion", action |-> "keySetDeleted"]>>
    /\ UNCHANGED <<dataVars, filterVars, errorVars, snackbarVars, requestVars, selectionVars,
                   navigationVars, modalVars>>

\* a confirmation that dismisses the view and never tells the caller
OnRemoveKeySetConfirmationTapSilent(isRemoved) ==
    /\ Ran("onRemoveKeySetConfirmationTap", None)
    /\ calls' =
          <<[call |-> "removeSeed", seedName |-> removeSeed, result |-> isRemoved]>>
          \o (IF isRemoved
              THEN <<[call |-> "forgetKeySetAction", keyName |-> KeyName],
                     [call |-> "dismissRequest.send"]>>
              ELSE <<>>)
    /\ UNCHANGED <<dataVars, filterVars, errorVars, snackbarVars, requestVars, selectionVars,
                   navigationVars, modalVars>>

\* onRemoveKeySetConfirmationTap(); isRemoved is what removeSeed answers
OnRemoveKeySetConfirmationTap(isRemoved) ==
    /\ Ran("onRemoveKeySetConfirmationTap", None)
    /\ calls' =
          <<[call |-> "removeSeed", seedName |-> removeSeed, result |-> isRemoved]>>
          \o (IF isRemoved
              THEN <<[call |-> "forgetKeySetAction", keyName |-> KeyName],
                     [call |-> "dismissRequest.send"],
                     [call |-> "onCompletion", action |-> "keySetDeleted"]>>
              ELSE <<>>)
    /\ UNCHANGED <<dataVars, filterVars, errorVars, snackbarVars, requestVars, selectionVars,
                   navigationVars, modalVars>>

\* ------------------------------------------------------------- specifications
Init == InitWith(KeySetAnswers)

RefreshStep ==
    \/ \E id \in DOMAIN keysRequests, ks \in KeySetAnswers : RefreshDataSuccess(id, ks)
    \/ \E id \in DOMAIN keysRequests, d \in Descriptions : RefreshDataFailure(id, d)
    \/ OnPublicKeyCompletion
    \/ OnAddDerivedKeyCompletion
    \/ ErrorDismissed

NetworksStep ==
    \/ \E networks \in NetworkAnswers : RefreshNetworksSuccess(networks)
    \/ \E d \in Descriptions : RefreshNetworksFailure(d)

FilterStep ==
    \/ OnNetworkSelectionTap
    \/ \E networks \in NetworkAnswers : OnNetworkSelectionTapSuccess(networks)
    \/ \E d \in Descriptions : OnNetworkSelectionTapFailure(d)
    \/ \E networks \in NetworkSets : NetworksSelected(networks)
    \/ NetworkSelectionDismissed

TapStep ==
    \E deriveKey \in Range(derivedKeys) :
        \E keyDetails \in {None, Some(MKeyDetails(deriveKey))} : OnDerivedKeyTap(deriveKey, keyDetails)

SelectionStep ==
    \/ OnActionSheetDismissal
    \/ ActionSheetChoice("select")

ModalStep ==
    \/ \E choice \in {"remove", "backup"} : ActionSheetChoice(choice)
    \/ OnConnectivityAlertTap
    \/ ConnectivityWarning
    \/ ClearBackupModalState
    \/ BackupModalDismissed

RemovalStep == \E isRemoved \in BOOLEAN : OnRemoveKeySetConfirmationTap(isRemoved)

DeriveStep ==
    \/ OnCreateDerivedKeyTap
    \/ CreateDerivedKeyViewModelRequested
    \/ DeriveNewKeyDismissed

ExportStep == KeyExportModelRequested

\* the controller: every handler, in any order
Next ==
    RefreshStep \/ NetworksStep \/ FilterStep \/ TapStep \/ SelectionStep \/ ModalStep
        \/ RemovalStep \/ DeriveStep \/ ExportStep

Spec == Init /\ [][Next]_vars

\* refreshes of the KeySet and of the networks
SpecRefresh == Init /\ [][RefreshStep \/ NetworksStep]_vars

\* the network filter, on every KeySet init can be given
InitProjection == InitWith(KeySetArguments)

FirstRefreshStep ==
    \/ \E ks \in KeySetAnswers : RefreshDataSuccess(1, ks)
    \/ \E d \in Descriptions : RefreshDataFailure(1, d)

SpecFilter == InitProjection /\ [][FilterStep \/ FirstRefreshStep]_vars

\* row taps and the selection overlay
SpecSelection == Init /\ [][TapStep \/ SelectionStep \/ FirstRefreshStep]_vars

\* removal of the key set
SpecRemoval == Init /\ [][RemovalStep \/ RefreshStep]_vars

\* every call of a provider and its completions
SpecProviders == Init /\ [][FirstRefreshStep \/ NetworksStep \/ FilterStep]_vars

\* the calls of the providers and their failures, with the triggers of
\* refreshData()
SpecRetry ==
    Init /\ [][\/ RefreshStep
               \/ \E d \in Descriptions : RefreshNetworksFailure(d)
               \/ OnNetworkSelectionTap
               \/ \E d \in Descriptions : OnNetworkSelectionTapFailure(d)]_vars

\* row taps, the selection overlay and the export of the selected rows
SpecExport ==
    Init /\ [][TapStep \/ SelectionStep \/ FirstRefreshStep \/ ExportStep]_vars

\* the action sheet and the modals it asks for
SpecModal == Init /\ [][ModalStep \/ SelectionStep]_vars

\* the derive-new-key flow, with the calls of init and their completions
SpecDerive == Init /\ [][FirstRefreshStep \/ NetworksStep \/ DeriveStep]_vars

\* the overlay of the network selection opens and closes on an unchanged
\* selectedNetworks
OverlayStep ==
    \/ OnNetworkSelectionTap
    \/ \E networks \in NetworkAnswers : OnNetworkSelectionTapSuccess(networks)
    \/ \E d \in Descriptions : OnNetworkSelectionTapFailure(d)
    \/ NetworkSelectionDismissed

\* refreshes while nobody replaces selectedNetworks
SpecFixedFilter == Init /\ [][RefreshStep \/ OverlayStep]_vars

\* ------------------------------------------------------------- helpers of the properties
Count(s, x) == Cardinality({i \in DOMAIN s : s[i] = x})

RECURSIVE IsSubsequence(_, _)
IsSubsequence(a, b) ==
    IF a = <<>> THEN TRUE
    ELSE IF b = <<>> THEN FALSE
    ELSE IF Head(a) = Head(b) THEN IsSubsequence(Tail(a), Tail(b))
    ELSE IsSubsequence(a, Tail(b))

keyDataOf(rows) == [i \in DOMAIN rows |-> rows[i].keyData]

IsRetained(rec, selected) == selected = {} \/ \E n \in selected : n.key = rec.network

\* ------------------------------------------------------------- C1
\* C1: a failure completion of refreshData() with description d sets
\* isPresentingError and presents alertError(d), and leaves keysData,
\* derivedKeys, keySummary, viewState and selectedKeys as they were.
C1_RefreshFailureKeepsData ==
    [][\A id \in DOMAIN keysRequests, d \in Descriptions :
          RefreshDataFailure(id, d) =>
              /\ isPresentingError'
              /\ presentableError' = alertError(d)
              /\ presentableError'.message = d
              /\ UNCHANGED <<keysData, derivedKeys, keySummary, viewState, selectedKeys>>]_vars

\* a failure "timeout" was delivered while rows were displayed
C1_Witness ==
    /\ handler.name = "refreshData.failure"
    /\ isPresentingError
    /\ presentableError.message = "timeout"
    /\ derivedKeys # <<>>
    /\ keysData # None

\* ------------------------------------------------------------- C2
\* C2 as stated: in every reachable state viewState is emptyState exactly when
\* derivedKeys is empty.
C2_ViewStateIffEmpty == (viewState = "emptyState") <=> (derivedKeys = <<>>)

\* C2, amended: once a KeySet is stored, viewState is emptyState exactly when
\* derivedKeys is empty; while none is stored, derivedKeys is empty and
\* viewState is list.
C2_ViewStateIffEmptyOnceLoaded ==
    /\ keysData # None => ((viewState = "emptyState") <=> (derivedKeys = <<>>))
    /\ keysData = None => (viewState = "list" /\ derivedKeys = <<>>)

\* the overlay was closed on a filter that retains none of the stored records
C2_Witness ==
    /\ handler.name = "isPresentingNetworkSelection = false"
    /\ keysData # None
    /\ Unwrap(keysData).set # <<>>
    /\ derivedKeys = <<>>
    /\ viewState = "emptyState"

\* ------------------------------------------------------------- C3
\* C3: derivedKeys is ordered non-decreasingly by derivation path, whatever the
\* filter, and holds its records in the relative order the sort gives them.
C3_DerivedKeysOrdered ==
    /\ \A i \in DOMAIN derivedKeys : \A j \in DOMAIN derivedKeys :
          i < j => ~PathLess(derivedKeys[j].viewModel.path, derivedKeys[i].viewModel.path)
    /\ keysData # None =>
          IsSubsequence(keyDataOf(derivedKeys), keyDataOf(projectedRows(Unwrap(keysData), {})))

\* the overlay closed on the empty filter: the KeySet holds "//2", "//10", "//1"
\* in this order and the rows are "//1", "//10", "//2"
C3_Witness ==
    /\ handler.name = "isPresentingNetworkSelection = false"
    /\ keysData # None
    /\ [i \in 1..Len(Unwrap(keysData).set) |-> Unwrap(keysData).set[i].path] = <<<<2>>, <<1, 0>>, <<1>>>>
    /\ selectedNetworks = {}
    /\ [i \in 1..Len(derivedKeys) |-> derivedKeys[i].viewModel.path] = <<<<1>>, <<1, 0>>, <<2>>>>

\* ------------------------------------------------------------- C4
\* the projection has run in this step: a successful refresh, or the overlay
\* closing with a KeySet stored
ProjectionRan ==
    \/ \E id \in DOMAIN keysRequests, ks \in KeySetAnswers : RefreshDataSuccess(id, ks)
    \/ NetworkSelectionDismissed /\ keysData # None

\* C4: the projection yields one row per retained record: every record when the
\* filter is empty, else exactly the records of the selected networks; so it
\* has at most as many rows as the KeySet has records, and as many when the
\* filter is empty.
C4_ProjectionRetains ==
    [][ProjectionRan =>
          LET set == Unwrap(keysData').set
              selected == selectedNetworks'
          IN  /\ \A rec \in Range(set) \cup Range(keyDataOf(derivedKeys')) :
                    Count(keyDataOf(derivedKeys'), rec) =
                        IF IsRetained(rec, selected) THEN Count(set, rec) ELSE 0
              /\ \A i \in DOMAIN derivedKeys' :
                    derivedKeys'[i] = DerivedKeyRowModel(derivedKeys'[i].keyData)
              /\ Len(derivedKeys') <= Len(set)
              /\ selected = {} => Len(derivedKeys') = Len(set)]_vars

\* the overlay closed with filter {A} on a KeySet with records on A and B:
\* fewer rows than records, and not none
C4_Witness ==
    /\ handler.name = "isPresentingNetworkSelection = false"
    /\ keysData # None
    /\ selectedNetworks = {NetworkOf("A")}
    /\ 0 < Len(derivedKeys)
    /\ Len(derivedKeys) < Len(Unwrap(keysData).set)

\* ------------------------------------------------------------- C5
\* C5: in selection mode, a tap of row r that follows a tap of the same row r
\* leaves selectedKeys with the membership it had before the first of them.
C5_DoubleTapRestores ==
    [][\A r \in Range(derivedKeys) :
          (/\ isPresentingSelectionOverlay
           /\ handler.name = "onDerivedKeyTap"
           /\ handler.deriveKey = Some(r)
           /\ OnDerivedKeyTap(r, None))
          => Range(selectedKeys') = Range(handler.selectedKeys)]_vars

\* in selection mode a displayed row was tapped and appended to another
\* selected row: a second tap of it is the next step
C5_Witness ==
    /\ isPresentingSelectionOverlay
    /\ handler.name = "onDerivedKeyTap"
    /\ handler.deriveKey # None
    /\ Unwrap(handler.deriveKey) \in Range(derivedKeys)
    /\ Len(handler.selectedKeys) = 1
    /\ selectedKeys = Append(handler.selectedKeys, Unwrap(handler.deriveKey))

\* ------------------------------------------------------------- C6
CallNames(cs) == {cs[i].call : i \in DOMAIN cs}

\* C6: a removal confirmation for which removeSeed answers false changes no
\* state of the controller, sends no dismiss request, calls neither onCompletion
\* nor forgetKeySetAction, and raises no error.
C6_FailedRemovalIsNoOp ==
    [][OnRemoveKeySetConfirmationTap(FALSE) =>
          /\ UNCHANGED <<dataVars, filterVars, errorVars, snackbarVars, requestVars,
                         selectionVars, navigationVars, modalVars>>
          /\ CallNames(calls') = {"removeSeed"}
          /\ isPresentingError' = isPresentingError]_vars

\* removeSeed was asked to remove "seed1" and answered false
C6_Witness ==
    /\ handler.name = "onRemoveKeySetConfirmationTap"
    /\ removeSeed = "seed1"
    /\ calls = <<[call |-> "removeSeed", seedName |-> "seed1", result |-> FALSE]>>

\* ------------------------------------------------------------- C7
CallsOf(cs, name) == {i \in DOMAIN cs : cs[i].call = name}

RemovedCalls(cs) == {i \in CallsOf(cs, "removeSeed") : cs[i].result}

\* C7: a handler sends as many dismiss requests, and as many
\* onCompletion(.keySetDeleted), as it got true answers from removeSeed, each
\* after such an answer; and a removal confirmation asks removeSeed once.
C7_DismissOncePerRemoval ==
    LET dismissed == CallsOf(calls, "dismissRequest.send")
        completed == {i \in CallsOf(calls, "onCompletion") : calls[i].action = "keySetDeleted"}
        removed == RemovedCalls(calls)
    IN  /\ Cardinality(dismissed) = Cardinality(removed)
        /\ Cardinality(completed) = Cardinality(removed)
        /\ \A i \in dismissed \cup completed : \E j \in removed : j < i
        /\ handler.name = "onRemoveKeySetConfirmationTap" =>
              Cardinality(CallsOf(calls, "removeSeed")) = 1

\* "seed1" was removed: one dismiss request and one onCompletion(.keySetDeleted)
C7_Witness ==
    /\ handler.name = "onRemoveKeySetConfirmationTap"
    /\ Len(calls) = 4
    /\ calls[1] = [call |-> "removeSeed", seedName |-> "seed1", result |-> TRUE]
    /\ calls[3].call = "dismissRequest.send"
    /\ calls[4].call = "onCompletion"

\* ------------------------------------------------------------- C8
\* C8: a refreshData() call cancels no call in flight, and a success
\* completion of any call in flight, older or newer than the ones answered
\* before, stores its KeySet, rows and summary and leaves the other calls in
\* flight.
C8_LastCompletedWins ==
    [][/\ \A id \in DOMAIN keysRequests, ks \in KeySetAnswers :
             RefreshDataSuccess(id, ks) =>
                 /\ keysData' = Some(ks)
                 /\ keySummary' = Some(KeySummaryViewModel(ks))
                 /\ keyDataOf(derivedKeys') =
                        filteredKeys(sortedDerivedKeys(ks.set), selectedNetworks)
                 /\ keysDataRequest' = id
                 /\ \A other \in DOMAIN keysRequests \ {id} :
                        keysRequests'[other] = keysRequests[other]
       /\ (OnPublicKeyCompletion \/ OnAddDerivedKeyCompletion) =>
             /\ Len(keysRequests') = Len(keysRequests) + 1
             /\ keysRequests'[Len(keysRequests')] = "inflight"
             /\ \A other \in DOMAIN keysRequests : keysRequests'[other] = keysRequests[other]
      ]_vars

\* two calls overlapped and both succeeded; the first call was answered last
\* and keysData holds its answer
C8_Witness ==
    /\ Len(keysRequests) >= 2
    /\ keysRequests[1] = "ok"
    /\ keysRequests[2] = "ok"
    /\ handler.name = "refreshData.success"
    /\ keysDataRequest = 1
    /\ keysData # None
    /\ derivedKeys = projectedRows(Unwrap(keysData), selectedNetworks)

\* ------------------------------------------------------------- C9
\* C9: a failure completion of refreshData(), of refreshNetworks() and of
\* onNetworkSelectionTap() with description d sets isPresentingError and
\* presents alertError(d).
C9_EveryFailureIsPresented ==
    [][\A d \in Descriptions :
          (\/ \E id \in DOMAIN keysRequests : RefreshDataFailure(id, d)
           \/ RefreshNetworksFailure(d)
           \/ OnNetworkSelectionTapFailure(d))
          => (isPresentingError' /\ presentableError' = alertError(d))]_vars

\* ------------------------------------------------------------- C10
\* C10: when isPresentingNetworkSelection goes from true to false,
\* isFilteringActive is then whether selectedNetworks is non-empty, and
\* derivedKeys the projection of the stored KeySet under selectedNetworks (no
\* row when no KeySet is stored).
C10_DismissalReprojects ==
    [][(isPresentingNetworkSelection /\ ~isPresentingNetworkSelection') =>
          /\ isFilteringActive' = (selectedNetworks' # {})
          /\ derivedKeys' =
                IF keysData' = None THEN <<>>
                ELSE projectedRows(Unwrap(keysData'), selectedNetworks')]_vars

\* the overlay closed on filter {A} over a KeySet with "//1" on A and "//10" on
\* B: the row of "//1" remains and isFilteringActive is true
C10_Witness ==
    /\ handler.name = "isPresentingNetworkSelection = false"
    /\ ~isPresentingNetworkSelection
    /\ keysData # None
    /\ Unwrap(keysData).set = <<Record(<<1, 0>>, "B"), Record(<<1>>, "A")>>
    /\ selectedNetworks = {NetworkOf("A")}
    /\ isFilteringActive
    /\ derivedKeys = <<DerivedKeyRowModel(Record(<<1>>, "A"))>>

\* ------------------------------------------------------------- C11
\* C11: in every reachable state in which selection mode is not active
\* (isPresentingSelectionOverlay is false), selectedKeys is empty.
C11_SelectionClearedOutsideMode ==
    ~isPresentingSelectionOverlay => selectedKeys = <<>>

\* ------------------------------------------------------------- C12
\* C12: with selectedNetworks unchanged, a success completion of refreshData()
\* that delivers the KeySet the previous success completion delivered leaves
\* derivedKeys, keySummary and viewState as they were after that one.
C12_RefreshIdempotent ==
    [][\A id \in DOMAIN keysRequests, ks \in KeySetAnswers :
          (/\ keysDataRequest > 0
           /\ keysData = Some(ks)
           /\ RefreshDataSuccess(id, ks))
          => /\ derivedKeys' = derivedKeys
             /\ keySummary' = keySummary
             /\ viewState' = viewState]_vars

\* two calls were answered with the same KeySet of two records, the second
\* answer is the latest step, and the rows are the two of the first answer
C12_Witness ==
    /\ handler.name = "refreshData.success"
    /\ Len(keysRequests) >= 2
    /\ keysRequests[1] = "ok"
    /\ keysRequests[2] = "ok"
    /\ keysData # None
    /\ Len(Unwrap(keysData).set) = 2
    /\ selectedNetworks = {}
    /\ Len(derivedKeys) = 2

\* ------------------------------------------------------------- C13
\* C13: keyExportModel() returns nil exactly when keySummary is nil; otherwise
\* the payload carries keySummary, one export entry per element of
\* selectedKeys in the same order, and the count of selectedKeys; and the call
\* changes no state of the controller.
C13_ExportModel ==
    [][KeyExportModelRequested =>
          LET result == calls'[1].result
          IN  /\ (result = None) <=> (keySummary = None)
              /\ result # None =>
                    LET payload == Unwrap(result)
                        entries == payload.selectedItems.derivedKeys
                    IN  /\ payload.selectedItems.key = Unwrap(keySummary)
                        /\ Len(entries) = Len(selectedKeys)
                        /\ \A i \in DOMAIN selectedKeys :
                              /\ entries[i].viewModel = selectedKeys[i].viewModel
                              /\ entries[i].keyData = selectedKeys[i].keyData
                        /\ payload.count = Len(selectedKeys)
              /\ UNCHANGED <<dataVars, filterVars, errorVars, snackbarVars, requestVars,
                             selectionVars, navigationVars, modalVars>>]_vars

\* a payload of two entries was returned for a selection in which the row of
\* the greater path comes first
C13_Witness ==
    /\ handler.name = "keyExportModel"
    /\ Len(selectedKeys) = 2
    /\ PathLess(selectedKeys[2].viewModel.path, selectedKeys[1].viewModel.path)
    /\ calls[1].result # None
    /\ Unwrap(calls[1].result).count = 2
    /\ Unwrap(calls[1].result).selectedItems.derivedKeys[1].keyData = selectedKeys[1].keyData

\* ------------------------------------------------------------- C14
\* C14: outside selection mode a tap of a row leaves selectedKeys as it was,
\* whether navigateToPublicKey resolves the row or declines it; in selection
\* mode a tap does not ask navigateToPublicKey and leaves the key-details
\* view as it was.
C14_TapDispatch ==
    [][\A r \in Range(derivedKeys) : \A keyDetails \in {None, Some(MKeyDetails(r))} :
          OnDerivedKeyTap(r, keyDetails) =>
              IF isPresentingSelectionOverlay
              THEN /\ CallsOf(calls', "navigateToPublicKey") = {}
                   /\ UNCHANGED <<isPresentingKeyDetails, presentedKeyDetails,
                                  presentedPublicKeyDetails>>
              ELSE selectedKeys' = selectedKeys]_vars

\* outside selection mode, with a row selected earlier, a row that is not
\* selected was tapped and its key details are presented
C14_Witness ==
    /\ handler.name = "onDerivedKeyTap"
    /\ ~isPresentingSelectionOverlay
    /\ selectedKeys # <<>>
    /\ selectedKeys = handler.selectedKeys
    /\ Unwrap(handler.deriveKey) \notin Range(selectedKeys)
    /\ isPresentingKeyDetails
    /\ presentedPublicKeyDetails = Some(Unwrap(handler.deriveKey).publicKeyDetails)

\* ------------------------------------------------------------- C15
\* C15: outside selection mode, a tap of a row that navigateToPublicKey
\* declines asks it once and leaves isPresentingKeyDetails,
\* presentedKeyDetails, presentedPublicKeyDetails, isPresentingError and
\* presentableError as they were.
C15_DeclinedTapIsSilent ==
    [][\A r \in Range(derivedKeys) :
          (~isPresentingSelectionOverlay /\ OnDerivedKeyTap(r, None)) =>
              /\ calls' = <<navigateToPublicKey(r)>>
              /\ UNCHANGED <<isPresentingKeyDetails, presentedKeyDetails,
                             presentedPublicKeyDetails>>
              /\ UNCHANGED <<isPresentingError, presentableError>>]_vars

\* navigateToPublicKey was asked for the tapped row and declined: no key
\* details are presented and no error is
C15_Witness ==
    /\ handler.name = "onDerivedKeyTap"
    /\ ~isPresentingSelectionOverlay
    /\ calls = <<navigateToPublicKey(Unwrap(handler.deriveKey))>>
    /\ ~isPresentingKeyDetails
    /\ presentedKeyDetails = None
    /\ ~isPresentingError

\* ------------------------------------------------------------- C16
\* C16: construction leaves one getKeys call in flight, and every
\* onPublicKeyCompletion(.derivedKeyDeleted) and
\* onAddDerivedKeyCompletion(.derivedKeyCreated) issues exactly one further
\* getKeys call and presents its snackbar.
C16_FetchOnInitAndMutation ==
    /\ keysRequests = <<"inflight">>
    /\ [][/\ OnPublicKeyCompletion =>
                /\ keysRequests' = Append(keysRequests, "inflight")
                /\ isSnackbarPresented'
                /\ snackbarViewModel'.style = "warning"
          /\ OnAddDerivedKeyCompletion =>
                /\ keysRequests' = Append(keysRequests, "inflight")
                /\ isSnackbarPresented'
                /\ snackbarViewModel'.style = "info"]_vars

\* the call of init was answered and a derived key was then deleted: a second
\* call is in flight and the snackbar is presented
C16_Witness ==
    /\ handler.name = "onPublicKeyCompletion"
    /\ Len(keysRequests) = 2
    /\ keysRequests[1] = "ok"
    /\ keysRequests[2] = "inflight"
    /\ isSnackbarPresented
    /\ snackbarViewModel.style = "warning"

\* ------------------------------------------------------------- C17
InFlight(requests) == Cardinality({i \in DOMAIN requests : requests[i] = "inflight"})

\* C17: a failure completion of getKeys or getNetworks issues no call of a
\* provider, and a getKeys call is added only by onPublicKeyCompletion or
\* onAddDerivedKeyCompletion (after the one of init).
C17_NoAutomaticRetry ==
    [][/\ (\/ \E id \in DOMAIN keysRequests, d \in Descriptions : RefreshDataFailure(id, d)
           \/ \E d \in Descriptions : RefreshNetworksFailure(d)
           \/ \E d \in Descriptions : OnNetworkSelectionTapFailure(d))
          => /\ Len(keysRequests') = Len(keysRequests)
             /\ InFlight(keysRequests') <= InFlight(keysRequests)
             /\ networkRequests'.refresh <= networkRequests.refresh
             /\ networkRequests'.tap <= networkRequests.tap
       /\ Len(keysRequests') > Len(keysRequests)
          => (OnPublicKeyCompletion \/ OnAddDerivedKeyCompletion)]_vars

\* the getNetworks call and then the getKeys call of init failed, the latter
\* with "timeout": its error is presented and no call is in flight
C17_Witness ==
    /\ handler.name = "refreshData.failure"
    /\ keysRequests = <<"failed">>
    /\ networkRequests = [refresh |-> 0, tap |-> 0]
    /\ isPresentingError
    /\ presentableError = alertError("timeout")

\* ------------------------------------------------------------- C18
\* C18: in every reachable state in which isPresentingDeriveNewKey is true
\* keysData is set, and createDerivedKeyViewModel() never traps at `keysData!`.
C18_DeriveOnlyWithKeySet ==
    /\ isPresentingDeriveNewKey => keysData # None
    /\ \A i \in CallsOf(calls, "createDerivedKeyViewModel") : calls[i].result.kind # "fatalError"

\* ------------------------------------------------------------- C19
\* C19: in every reachable state every element of selectedKeys is an element
\* of derivedKeys.
C19_SelectedAreDisplayed == Range(selectedKeys) \subseteq Range(derivedKeys)

\* ------------------------------------------------------------- C20
\* C20: no two positions of selectedKeys hold equal rows.
C20_NoRowSelectedTwice ==
    \A i \in DOMAIN selectedKeys : \A j \in DOMAIN selectedKeys :
        i # j => selectedKeys[i] # selectedKeys[j]

\* in selection mode, with two rows selected, the row selected first was
\* tapped again: the other row alone remains
C20_Witness ==
    /\ handler.name = "onDerivedKeyTap"
    /\ isPresentingSelectionOverlay
    /\ Len(handler.selectedKeys) = 2
    /\ handler.deriveKey = Some(handler.selectedKeys[1])
    /\ selectedKeys = <<handler.selectedKeys[2]>>

\* ------------------------------------------------------------- C21
\* C21: onActionSheetDismissal() with shouldPresentBackupModal set: while the
\* connectivity alert is active it does not call performBackupSeed, leaves
\* backupModal and isShowingBackupModal as they were and toggles
\* isPresentingConnectivityAlert; otherwise it calls performBackupSeed once,
\* sets isShowingBackupModal and leaves isPresentingConnectivityAlert as it
\* was.  After every dismissal the three shouldPresent... flags are false.
C21_BackupGatedByAlert ==
    [][OnActionSheetDismissal =>
          /\ shouldPresentBackupModal =>
                IF alert
                THEN /\ CallsOf(calls', "performBackupSeed") = {}
                     /\ UNCHANGED <<backupModal, isShowingBackupModal>>
                     /\ isPresentingConnectivityAlert' = ~isPresentingConnectivityAlert
                ELSE /\ Cardinality(CallsOf(calls', "performBackupSeed")) = 1
                     /\ isShowingBackupModal'
                     /\ isPresentingConnectivityAlert' = isPresentingConnectivityAlert
          /\ ~shouldPresentBackupModal =>
                /\ CallsOf(calls', "performBackupSeed") = {}
                /\ UNCHANGED <<backupModal, isShowingBackupModal, isPresentingConnectivityAlert>>
          /\ ~shouldPresentRemoveConfirmationModal'
          /\ ~shouldPresentBackupModal'
          /\ ~shouldPresentSelectionOverlay']_vars

\* a dismissal with the backup and the removal pending met the connectivity
\* alert: the alert is presented, the removal confirmation is shown, and no
\* backup was made
C21_Witness ==
    /\ handler.name = "onActionSheetDismissal"
    /\ alert
    /\ isPresentingConnectivityAlert
    /\ isShowingRemoveConfirmation
    /\ ~isShowingBackupModal
    /\ backupModal = None
    /\ calls = <<>>
    /\ ~shouldPresentBackupModal

====
